---- MODULE Spec2Model ----
(***************************************************************************)
(* Model of the Next.js search proxy of image-similarity-app:              *)
(* src/src/app/api/search/route.ts (POST /api/search and its helpers       *)
(* callPythonService, validateImageFile, searchWithImage, searchWithText,  *)
(* searchWithEmbedding).  The Python embedding/search service is the       *)
(* environment: it answers every call with any status and any body, late,  *)
(* or never.  GET /api/health and checkServiceHealth (src/lib/utils.ts)   *)
(* are modelled by the actions of SpecHealth, and two POST handlers that   *)
(* run at the same time by the actions of SpecConc.  The search page       *)
(* (SearchPage: file selection, image, multi-image and text search, whose  *)
(* requests the server answers in any order) is modelled by the actions    *)
(* of SpecPage.                                                            *)
(*                                                                         *)
(* Time is in milliseconds and advances in steps of TickStep.              *)
(***************************************************************************)
EXTENDS Integers, Sequences, FiniteSets, TLC

VARIABLES
  pc,         \* position of the POST handler: idle, fetch, json, text, done
  req,        \* the request being handled
  stage,      \* which Python call is in progress: none, embed, search
  queryType,  \* which searchWith* function is running
  calls,      \* the Python calls issued so far, in order
  timer,      \* deadline of the armed setTimeout of callPythonService, or NoTimer
  callStart,  \* time at which the current callPythonService began
  startTime,  \* startTime of the running searchWith* function
  httpStatus, \* status of the Python response whose body is being read
  embedResponse, \* embedResponse of searchWithImage / searchWithText
  searchResponse, \* searchResponse of the running searchWith* function
  resp,       \* the response sent to the client
  now,        \* the clock (Date.now())
  hpc,        \* position of GET /api/health: idle, fetch, json, done
  pyStatus,   \* status of the Python service's answer to /health (0: none yet)
  hresp,      \* the response of GET /api/health
  hclient,    \* position of checkServiceHealth: idle, waiting, done
  hstart,     \* time at which checkServiceHealth sent its request
  hcheck,     \* the value returned by checkServiceHealth
  handlers,   \* the POST handlers that run at the same time, by number
  selectedFiles, \* SearchPage: the files chosen for the image search
  previewUrls,   \* SearchPage: the object URLs of the chosen files
  isSearching,   \* SearchPage: the flag that disables the search buttons
  searchResults, \* SearchPage: the results on display
  error,         \* SearchPage: the message on display, or NoMessage
  searchTime,    \* SearchPage: the search time on display, or NoSearchTime
  searches,      \* SearchPage: the searches the page has started, in order
  fileInput      \* SearchPage: whether the file input element holds files

\* the variables of POST /api/search
searchVars == <<pc, req, stage, queryType, calls, timer, callStart, startTime,
                httpStatus, embedResponse, searchResponse, resp>>

\* the variables of SearchPage
pageVars == <<selectedFiles, previewUrls, isSearching, searchResults, error,
              searchTime, searches, fileInput>>

\* the variables of the other components
restVars == <<hpc, pyStatus, hresp, hclient, hstart, hcheck, handlers, pageVars>>

vars == <<pc, req, stage, queryType, calls, timer, callStart, startTime,
          httpStatus, embedResponse, searchResponse, resp, now, restVars>>

----------------------------------------------------------------------------
(* Program constants *)

API_TIMEOUT == 30000
MAX_FILE_SIZE == 10485760
ALLOWED_IMAGE_TYPES == {"image/jpeg", "image/png", "image/webp"}
MaxTextLength == 1000
EmbeddingDim == 512

(* Bounds of the model *)

MaxTicks == 7
TickStep == API_TIMEOUT \div 3
NoTimer == 0 - 1

----------------------------------------------------------------------------
(* JavaScript values, as far as the handler inspects them *)

JSVal(k, s, a, n) == [kind |-> k, str |-> s, arr |-> a, num |-> n]
Undefined == JSVal("undefined", <<>>, <<>>, 0)
Null == JSVal("null", <<>>, <<>>, 0)
Str(s) == JSVal("string", s, <<>>, 0)
Num(n) == JSVal("number", <<>>, <<>>, n)
Bool(b) == JSVal("boolean", <<>>, <<>>, IF b THEN 1 ELSE 0)
Arr(a) == JSVal("array", <<>>, a, 0)
Obj == JSVal("object", <<>>, <<>>, 0)

\* JavaScript truthiness (the test of `if (body.text)`, `!text`)
Truthy(v) ==
  CASE v.kind = "string" -> Len(v.str) > 0
    [] v.kind = "number" -> v.num # 0
    [] v.kind = "boolean" -> v.num # 0
    [] v.kind = "array" -> TRUE
    [] v.kind = "object" -> TRUE
    [] OTHER -> FALSE

\* typeof v === "string"
IsString(v) == v.kind = "string"

\* Array.isArray(v)
IsArray(v) == v.kind = "array"

IsSpace(c) == c \in {" ", "\t", "\n"}

\* String.prototype.trim
Trim(s) ==
  LET keep == {i \in 1..Len(s) : ~IsSpace(s[i])}
  IN IF keep = {} THEN <<>>
     ELSE LET lo == CHOOSE i \in keep : \A j \in keep : i <= j
              hi == CHOOSE i \in keep : \A j \in keep : j <= i
          IN SubSeq(s, lo, hi)

Rep(c, n) == [i \in 1..n |-> c]

----------------------------------------------------------------------------
(* Errors thrown inside the handler: name and message of the Error object; *)
(* the message of a "Python service error" carries the status and the body *)
(* text of the Python response.                                            *)

Err(n, m, st, d) == [name |-> n, msg |-> m, status |-> st, detail |-> d]
NoError == Err("", "", 0, "")
AbortError == Err("AbortError", "This operation was aborted", 0, "")
NetworkError == Err("TypeError", "fetch failed", 0, "")
JsonSyntaxError == Err("SyntaxError", "Unexpected token in JSON", 0, "")
NullTypeError == Err("TypeError", "Cannot read properties of null", 0, "")
UndefTypeError == Err("TypeError", "Cannot read properties of undefined", 0, "")
PythonServiceError(st, d) == Err("Error", "Python service error", st, d)
ErrorOf(m) == Err("Error", m, 0, "")

----------------------------------------------------------------------------
(* Requests *)

NoFile == [kind |-> "null", size |-> 0, type |-> "", bytes |-> ""]
FileOf(sz, ty) == [kind |-> "file", size |-> sz, type |-> ty, bytes |-> "bytes"]
\* a plain form field named "image" (formData.get returns a string)
StringField == [kind |-> "string", size |-> 0, type |-> "", bytes |-> "abc"]

Files ==
  {NoFile, StringField}
  \cup {FileOf(sz, ty) : sz \in {1, MAX_FILE_SIZE, MAX_FILE_SIZE + 1},
                         ty \in ALLOWED_IMAGE_TYPES \cup {"image/gif", ""}}

Body(t, i, e) == [isNull |-> FALSE, text |-> t, image_data |-> i, embedding |-> e]
NullBody == [isNull |-> TRUE, text |-> Undefined, image_data |-> Undefined,
             embedding |-> Undefined]

TextValues ==
  { Undefined, Null, Num(0), Num(5), Bool(TRUE), Arr(<<1>>), Obj,
    Str(<<>>), Str(<<" ">>), Str(<<" ", "\t", "\n">>),
    Str(<<"c", "a", "t">>), Str(<<" ", "a", " ", "b", " ">>),
    Str(Rep("a", MaxTextLength)), Str(Rep("a", MaxTextLength + 1)),
    Str(<<" ">> \o Rep("a", MaxTextLength - 1)),
    Str(<<" ">> \o Rep("a", MaxTextLength)),
    Str(Rep(" ", MaxTextLength + 1)) }

ImageDataValues ==
  { Undefined, Str(<<>>), Str(<<"data:image/jpeg;base64,", "/9j/4AAQ">>),
    Str(<<"not an image">>), Num(7), Obj }

EmbeddingValues ==
  { Undefined, Null, Num(1), Str(<<"0.1,0.2">>), Arr(<<>>), Arr(<<1, 2>>),
    Arr(Rep(1, EmbeddingDim - 1)), Arr(Rep(1, EmbeddingDim)),
    Arr(Rep(1, EmbeddingDim + 1)) }

\* JSON bodies: every body with one field set, and bodies with several
Bodies ==
  {Body(t, Undefined, Undefined) : t \in TextValues}
  \cup {Body(Undefined, i, Undefined) : i \in ImageDataValues}
  \cup {Body(Undefined, Undefined, e) : e \in EmbeddingValues}
  \cup {Body(t, i, e) : t \in {Str(<<>>), Str(<<"c", "a", "t">>)},
                        i \in {Undefined, Str(<<"not an image">>)},
                        e \in {Undefined, Arr(<<1, 2>>)}}
  \cup {NullBody}

\* contentType is the header split into its parts; `parses` tells whether
\* request.json() / request.formData() can parse the body
Request(ct, ok, b, f) == [contentType |-> ct, parses |-> ok, body |-> b, file |-> f]

JsonType == <<"application/json">>
JsonUtf8Type == <<"application/json", "charset=utf-8">>
MultipartType == <<"multipart/form-data", "boundary=x">>
PlainType == <<"text/plain">>
NoType == <<>>

Requests ==
  {Request(JsonType, TRUE, b, NoFile) : b \in Bodies}
  \cup {Request(JsonUtf8Type, TRUE, Body(Str(<<"c", "a", "t">>), Undefined, Undefined),
                NoFile)}
  \cup {Request(MultipartType, TRUE, NullBody, f) : f \in Files}
  \cup {Request(ct, FALSE, NullBody, NoFile) : ct \in {JsonType, MultipartType}}
  \cup {Request(ct, ok, NullBody, NoFile) : ct \in {PlainType, NoType}, ok \in BOOLEAN}

NoRequest == Request(NoType, FALSE, NullBody, NoFile)

----------------------------------------------------------------------------
(* What the Python service may send back *)

HttpStatuses == {200, 400, 500, 503}
ErrorTexts == {"detail", "Traceback /srv/app/main.py"}

PyResult(ix, fn, sim) == [index |-> ix, filename |-> fn, similarity |-> sim]

\* a JSON body of the Python service; `success` and `error` are the keys with
\* which the service reports a failure inside a 200 response
PyBody(nul, emb, has, rs, tot) ==
  [isNull |-> nul, embedding |-> emb, hasResults |-> has, results |-> rs,
   total_results |-> tot, success |-> Undefined, error |-> ""]

\* { "success": false, "error": msg }
PyErrorBody(msg) ==
  [PyBody(FALSE, Undefined, FALSE, <<>>, Undefined)
     EXCEPT !.success = Bool(FALSE), !.error = msg]

\* bodies of /embed/*: only `embedding` is read from them
EmbedBodies ==
  {PyBody(FALSE, e, FALSE, <<>>, Undefined) :
     e \in {Undefined, Null, Arr(<<>>), Arr(Rep(1, EmbeddingDim))}}
  \cup {PyBody(TRUE, Undefined, FALSE, <<>>, Undefined),
        PyErrorBody("Invalid image data")}

ResultLists ==
  { <<>>,
    <<PyResult(Num(0), "cat.jpg", 95)>>,
    <<PyResult(Num(12), "dog.png", 80), PyResult(Num(0), "cat.jpg", 95)>>,
    <<PyResult(Num(0), "cat.jpg", 95), PyResult(Num(12), "dog.png", 80)>>,
    <<PyResult(Undefined, "cat.jpg", 95)>> }

\* bodies of /search: `results` and `total_results` are read from them
SearchBodies ==
  UNION {{PyBody(FALSE, Undefined, TRUE, rs, t) :
            t \in {Undefined, Num(Len(rs)), Num(7)}} : rs \in ResultLists}
  \cup {PyBody(FALSE, Undefined, FALSE, <<>>, Undefined),
        PyBody(TRUE, Undefined, FALSE, <<>>, Undefined),
        PyErrorBody("Index not loaded")}

----------------------------------------------------------------------------
(* Responses of POST /api/search.  `fields` is the set of keys of the JSON *)
(* body; a key that is not in `fields` is absent from the body.            *)

Response(st, ok, rs, tot, tm, e, qt, fs) ==
  [status |-> st, success |-> ok, results |-> rs, totalResults |-> tot,
   searchTime |-> tm, error |-> e, queryType |-> qt, fields |-> fs]

NoResponse == Response(0, FALSE, <<>>, Undefined, 0, NoError, "", {})

AllFields == {"success", "results", "totalResults", "searchTime", "error", "queryType"}

\* NextResponse.json({ success: false, error: msg }, { status: 400 })
BadRequest(msg) ==
  Response(400, FALSE, <<>>, Undefined, 0, ErrorOf(msg), "", {"success", "error"})

\* the catch block of POST
InternalError(e) ==
  Response(500, FALSE, <<>>, Num(0), 0, e, "unknown", AllFields)

\* the catch block of searchWithImage / searchWithText / searchWithEmbedding
SearchFailure(e, qt, tm) ==
  [success |-> FALSE, results |-> <<>>, totalResults |-> Num(0),
   searchTime |-> tm, error |-> e, queryType |-> qt, fields |-> AllFields]

\* ResultStatus with the status option left out
ResultStatusAlways200(result) == 200

\* ResultStatus with a failed search reported as a client error
ResultStatusClientError(result) == IF result.success THEN 200 ELSE 400

\* if (result.success) NextResponse.json(result)
\* else NextResponse.json(result, { status: 500 })
ResultStatus(result) == IF result.success THEN 200 ELSE 500

SendResult(result) ==
  Response(ResultStatus(result), result.success, result.results,
           result.totalResults, result.searchTime, result.error,
           result.queryType, result.fields)

----------------------------------------------------------------------------
(* The synchronous part of POST: parsing, validation and dispatch *)

\* contentType.includes(part)
Includes(ct, part) == \E i \in 1..Len(ct) : ct[i] = part

validateImageFile(file) ==
  IF file.kind = "file" /\ file.size > MAX_FILE_SIZE
  THEN [valid |-> FALSE, error |-> "File size must be less than 10MB"]
  ELSE IF ~(file.kind = "file" /\ file.type \in ALLOWED_IMAGE_TYPES)
  THEN [valid |-> FALSE, error |-> "Only JPEG, PNG, and WebP images are allowed"]
  ELSE [valid |-> TRUE, error |-> ""]

\* the data URL `data:${file.type};base64,${base64}`; the base64 text of the
\* file's bytes is kept as the bytes themselves
imageToBase64(file) == Str(<<"data:", file.type, ";base64,", file.bytes>>)

CallData(t, i, e) == [text |-> t, image_data |-> i, embedding |-> e]
NoData == CallData(Undefined, Undefined, Undefined)

\* what POST does before its first Python call: answer at once, or run a search
Answer(r) ==
  [kind |-> "respond", resp |-> r, queryType |-> "", endpoint |-> "", data |-> NoData]
RunSearch(qt, ep, d) ==
  [kind |-> "search", resp |-> NoResponse, queryType |-> qt, endpoint |-> ep, data |-> d]

\* TextQuery with the emptiness test made on the untrimmed text
TextQueryNoTrim(text) ==
  IF ~Truthy(text) \/ ~IsString(text) \/ Len(text.str) = 0
  THEN Answer(BadRequest("Text query is required"))
  ELSE IF Len(text.str) > MaxTextLength
  THEN Answer(BadRequest("Text query too long (max 1000 characters)"))
  ELSE RunSearch("text", "/embed/text", CallData(Str(Trim(text.str)), Undefined, Undefined))

\* the text branch of POST (body.text is truthy)
TextQuery(text) ==
  IF ~Truthy(text) \/ ~IsString(text) \/ Len(Trim(text.str)) = 0
  THEN Answer(BadRequest("Text query is required"))
  ELSE IF Len(text.str) > MaxTextLength
  THEN Answer(BadRequest("Text query too long (max 1000 characters)"))
  ELSE RunSearch("text", "/embed/text", CallData(Str(Trim(text.str)), Undefined, Undefined))

\* the image_data branch of POST
ImageDataQuery(imageData) ==
  IF ~Truthy(imageData) \/ ~IsString(imageData)
  THEN Answer(BadRequest("Image data is required"))
  ELSE RunSearch("image", "/embed/image", CallData(Undefined, imageData, Undefined))

\* the embedding branch of POST
EmbeddingQuery(embedding) ==
  IF ~Truthy(embedding) \/ ~IsArray(embedding)
  THEN Answer(BadRequest("Valid embedding array is required"))
  ELSE RunSearch("embedding", "/search", CallData(Undefined, Undefined, embedding))

\* the multipart branch of POST
MultipartQuery(r) ==
  IF ~r.parses
  THEN Answer(InternalError(Err("TypeError", "Failed to parse body as FormData", 0, "")))
  ELSE IF r.file.kind = "null"
  THEN Answer(BadRequest("No image file provided"))
  ELSE IF ~validateImageFile(r.file).valid
  THEN Answer(BadRequest(validateImageFile(r.file).error))
  ELSE RunSearch("image", "/embed/image",
                 CallData(Undefined, imageToBase64(r.file), Undefined))

\* JsonQuery with image_data looked at before text
JsonQueryImageFirst(r) ==
  IF ~r.parses THEN Answer(InternalError(JsonSyntaxError))
  ELSE IF r.body.isNull THEN Answer(InternalError(NullTypeError))
  ELSE IF Truthy(r.body.image_data) THEN ImageDataQuery(r.body.image_data)
  ELSE IF Truthy(r.body.text) THEN TextQuery(r.body.text)
  ELSE IF Truthy(r.body.embedding) THEN EmbeddingQuery(r.body.embedding)
  ELSE Answer(BadRequest("Either text, image_data, or embedding is required"))

\* the JSON branch of POST
JsonQuery(r) ==
  IF ~r.parses THEN Answer(InternalError(JsonSyntaxError))
  ELSE IF r.body.isNull THEN Answer(InternalError(NullTypeError))
  ELSE IF Truthy(r.body.text) THEN TextQuery(r.body.text)
  ELSE IF Truthy(r.body.image_data) THEN ImageDataQuery(r.body.image_data)
  ELSE IF Truthy(r.body.embedding) THEN EmbeddingQuery(r.body.embedding)
  ELSE Answer(BadRequest("Either text, image_data, or embedding is required"))

Dispatch(r) ==
  IF Includes(r.contentType, "multipart/form-data") THEN MultipartQuery(r)
  ELSE IF Includes(r.contentType, "application/json") THEN JsonQuery(r)
  ELSE Answer(BadRequest("Unsupported content type"))

----------------------------------------------------------------------------
(* The result mapping of searchWith* *)

Digit(d) == <<"0", "1", "2", "3", "4", "5", "6", "7", "8", "9">>[d + 1]

RECURSIVE DecimalString(_)
\* Number.prototype.toString of a non-negative integer
DecimalString(n) ==
  IF n < 10 THEN <<Digit(n)>> ELSE DecimalString(n \div 10) \o <<Digit(n % 10)>>

\* the URL prefix each search function puts before the filename
UrlPrefix(qt) ==
  IF qt = "text" THEN "/api/images/"
  ELSE "https://drive.charpstar.net/indexing-test/images/"

\* MapResult with the distance of the result copied as its similarity
MapResultDistance(result, qt, t) ==
  [id |-> DecimalString(result.index.num),
   imageUrl |-> <<UrlPrefix(qt), result.filename>>,
   similarity |-> 100 - result.similarity,
   metadata |-> [filename |-> result.filename, size |-> 0, uploadedAt |-> t]]

\* MapResult with the 1-based rank of the item as id
MapResultRankId(result, qt, t) ==
  [id |-> DecimalString(result.index.num + 1),
   imageUrl |-> <<UrlPrefix(qt), result.filename>>,
   similarity |-> result.similarity,
   metadata |-> [filename |-> result.filename, size |-> 0, uploadedAt |-> t]]

\* the object built for one result of the Python service
MapResult(result, qt, t) ==
  [id |-> DecimalString(result.index.num),
   imageUrl |-> <<UrlPrefix(qt), result.filename>>,
   similarity |-> result.similarity,
   metadata |-> [filename |-> result.filename, size |-> 0, uploadedAt |-> t]]

\* MapResults with the list turned round
MapResultsReversed(body, qt, t) ==
  LET rs == IF body.hasResults THEN body.results ELSE <<>>
  IN [i \in 1..Len(rs) |-> MapResult(rs[Len(rs) + 1 - i], qt, t)]

\* (searchResponse.results || []).map(...)
MapResults(body, qt, t) ==
  LET rs == IF body.hasResults THEN body.results ELSE <<>>
  IN [i \in 1..Len(rs) |-> MapResult(rs[i], qt, t)]

\* result.index.toString() throws when index is undefined
MappingThrows(body) ==
  body.hasResults /\ \E i \in 1..Len(body.results) : body.results[i].index.kind # "number"

\* NoEmbedding testing for a missing key only
NoEmbeddingOnlyUndefined(body) == body.embedding.kind = "undefined"

\* if (!embedResponse.embedding)
NoEmbedding(body) == ~Truthy(body.embedding)

\* the object returned at the end of the try block of searchWith*
SearchSuccess(body, qt, tm, t) ==
  [success |-> TRUE, results |-> MapResults(body, qt, t),
   totalResults |-> body.total_results, searchTime |-> tm, error |-> NoError,
   queryType |-> qt,
   fields |-> {"success", "results", "searchTime", "queryType"}
              \cup (IF body.total_results.kind = "undefined" THEN {} ELSE {"totalResults"})]

----------------------------------------------------------------------------
(* callPythonService *)

\* an entry of the call log: what was sent, how the call ended, the error that
\* ended it (cause) and the error callPythonService threw for it (error)
Call(ep, d) ==
  [endpoint |-> ep, data |-> d, outcome |-> "pending", cause |-> NoError,
   error |-> NoError]

\* SetTimeout counting from the start of the search, not of the call
SetTimeoutShared(timeout) == startTime + timeout

\* setTimeout(() => controller.abort(), timeout), armed when the call starts
SetTimeout(timeout) == now + timeout

\* CallCatch without the test of the error's name
CallCatchAlwaysTimeout(e) == ErrorOf("Request timeout")

\* the catch block of callPythonService: an abort becomes "Request timeout"
CallCatch(e) ==
  IF e.name = "AbortError" THEN ErrorOf("Request timeout") ELSE e

\* the outcome of the call in progress is recorded in the log
Settle(log, outcome, cause, e) ==
  [log EXCEPT ![Len(log)].outcome = outcome, ![Len(log)].cause = cause,
              ![Len(log)].error = e]

\* a call starts: the timer is armed and the fetch is sent
StartCall(log, ep, d) ==
  /\ calls' = Append(log, Call(ep, d))
  /\ timer' = SetTimeout(API_TIMEOUT)
  /\ callStart' = now
  /\ httpStatus' = 0
  /\ pc' = "fetch"

\* searchWith* returns `result` and POST sends it
Finish(result) ==
  /\ resp' = SendResult(result)
  /\ pc' = "done"

\* CallFails with one retry of the failed call
CallFailsRetry(e) ==
  IF Len(calls) < 3
  THEN /\ StartCall(Settle(calls, "rejected", e, CallCatch(e)),
                    calls[Len(calls)].endpoint, calls[Len(calls)].data)
       /\ UNCHANGED <<req, stage, queryType, startTime, embedResponse,
                      searchResponse, resp, restVars>>
  ELSE /\ calls' = Settle(calls, "rejected", e, CallCatch(e))
       /\ timer' = NoTimer
       /\ Finish(SearchFailure(CallCatch(e), queryType, now - startTime))
       /\ UNCHANGED <<req, stage, queryType, callStart, startTime, httpStatus,
                      embedResponse, searchResponse, restVars>>

\* the running call rejects with e: both catch blocks run and POST answers
CallFails(e) ==
  /\ calls' = Settle(calls, "rejected", e, CallCatch(e))
  /\ timer' = NoTimer
  /\ Finish(SearchFailure(CallCatch(e), queryType, now - startTime))
  /\ UNCHANGED <<req, stage, queryType, callStart, startTime, httpStatus,
                 embedResponse, searchResponse, restVars>>

----------------------------------------------------------------------------
(* Responses of GET /api/health and results of checkServiceHealth *)

AXIOS_TIMEOUT == 30000

\* the JSON body of GET /api/health with its HTTP status; python is
\* services.python.status and perror is services.python.error; both are ""
\* when the body has no such key
HealthResponse(http, st, py, perr) ==
  [http |-> http, status |-> st, python |-> py, perror |-> perr]

NoHealthResponse == HealthResponse(0, "", "", "")

\* response.ok
Ok(st) == st >= 200 /\ st <= 299

\* the body returned by the try block of GET
HealthyResponse(st) ==
  HealthResponse(200, "healthy", IF Ok(st) THEN "healthy" ELSE "unhealthy", "")

\* the body returned by the catch block of GET
DegradedResponse(msg) == HealthResponse(503, "degraded", "unhealthy", msg)

\* the body returned by the GET that does not ask the Python service
StaticResponse == HealthResponse(200, "healthy", "", "")

HealthCheck(st, py, e) == [status |-> st, pythonService |-> py, error |-> e]

NoHealthCheck == HealthCheck("", FALSE, "")

\* the value checkServiceHealth returns for the response r of /api/health;
\* axios rejects a response whose status is not 2xx
CheckResult(r) ==
  IF Ok(r.http)
  THEN HealthCheck(r.status, r.python = "healthy", r.perror)
  ELSE HealthCheck("unhealthy", FALSE, "Failed to check service health")

----------------------------------------------------------------------------
(* Several POST handlers at once: the state of one invocation of POST *)

\* two invocations of POST, numbered in the order of their requests
HandlerIds == {1, 2}

NoBody == PyBody(TRUE, Undefined, FALSE, <<>>, Undefined)

\* the locals of one invocation of POST and of the functions it calls
IdleHandler ==
  [pc |-> "idle", req |-> NoRequest, stage |-> "none", queryType |-> "",
   calls |-> <<>>, timer |-> NoTimer, startTime |-> 0, httpStatus |-> 0,
   embedResponse |-> NoBody, searchResponse |-> NoBody, resp |-> NoResponse]

\* the requests, statuses and bodies of the handlers that run together
ConcRequests ==
  {Request(JsonType, TRUE, Body(Str(<<"c", "a", "t">>), Undefined, Undefined), NoFile),
   Request(JsonType, TRUE, Body(Undefined, Undefined, Arr(<<1, 2>>)), NoFile),
   Request(JsonType, TRUE, Body(Undefined, Undefined, Undefined), NoFile)}
ConcStatuses == {200, 503}
ConcEmbedBodies ==
  {PyBody(FALSE, Arr(Rep(1, EmbeddingDim)), FALSE, <<>>, Undefined),
   PyErrorBody("Invalid image data")}
ConcSearchBodies ==
  {PyBody(FALSE, Undefined, TRUE, <<PyResult(Num(0), "cat.jpg", 95)>>, Num(1))}
ConcErrorTexts == {"detail"}

\* the handlers are watched until two steps after the first timeout
ConcHorizon == API_TIMEOUT + 2 * TickStep

\* an entry of a handler's call log, with the times of its start and end
TimedCall(ep, d, t) ==
  [endpoint |-> ep, data |-> d, outcome |-> "pending", cause |-> NoError,
   error |-> NoError, startedAt |-> t, endedAt |-> NoTimer]

\* callPythonService begins in handler h at time t
HandlerCalls(h, log, ep, d, t) ==
  [h EXCEPT !.calls = Append(log, TimedCall(ep, d, t)),
            !.timer = t + API_TIMEOUT, !.httpStatus = 0, !.pc = "fetch"]

\* the call in progress ends at time t
SettleAt(log, outcome, cause, e, t) ==
  [Settle(log, outcome, cause, e) EXCEPT ![Len(log)].endedAt = t]

\* the call in progress of handler h rejects with e at time t, and h answers
HandlerFails(h, e, t) ==
  LET result == SearchFailure(CallCatch(e), h.queryType, t - h.startTime)
  IN [h EXCEPT !.calls = SettleAt(h.calls, "rejected", e, CallCatch(e), t),
               !.timer = NoTimer, !.resp = SendResult(result), !.pc = "done"]

\* handler h answers with the result of its search at time t
HandlerReturns(h, result, t) ==
  [h EXCEPT !.calls = SettleAt(h.calls, "resolved", NoError, NoError, t),
            !.timer = NoTimer, !.resp = SendResult(result), !.pc = "done"]

\* AbortTargets with one controller for all the handlers
AbortTargetsShared(hs, id) == {j \in HandlerIds : hs[j].pc = "fetch"}

\* the handlers whose fetch listens to the signal of the controller that the
\* running call of handler id created
AbortTargets(hs, id) == {id}

----------------------------------------------------------------------------
(* SearchPage: files, server answers and the searches in progress *)

MaxFiles == 2
MaxSearches == 2

\* 10 * 1024 * 1024 of handleFileSelect and handleDrop
PageMaxSize == 10 * 1024 * 1024

\* file.type.startsWith("image/"), for the types of the model
IsImageType(ty) == ty \in {"image/jpeg", "image/png", "image/webp", "image/gif"}

\* as many different images as an event holds files; the largest is of
\* exactly PageMaxSize bytes
ImageFiles == {FileOf(PageMaxSize + 1 - i, "image/png") : i \in 1..MaxFiles}

\* an image that is too large and a file that is no image
RejectedFiles == {FileOf(PageMaxSize + 1, "image/png"), FileOf(1, "text/plain")}

\* the lists of n different files of S
Distinct(S, n) == {fs \in [1..n -> S] : \A i, j \in 1..n : fs[i] = fs[j] => i = j}

\* the file lists of a change or drop event: up to MaxFiles different files,
\* the images in any order, followed by the files that are rejected
FileLists ==
  {fs \in {a \o b : a \in UNION {Distinct(ImageFiles, n) : n \in 0..MaxFiles},
                     b \in UNION {Distinct(RejectedFiles, n) : n \in 0..2}} :
     Len(fs) <= MaxFiles}

\* the values of the text box
TextInputs == { <<"c", "a", "t">>, <<" ">> }

\* null of the error and searchTime states
NoMessage == "null"
NoSearchTime == 0 - 1

\* URL.createObjectURL(file)
ObjectUrl(file) == <<"blob:", file>>

\* the object the page reads from the body of /api/search
SearchData(ok, rs, tm, msg) ==
  [success |-> ok, results |-> rs, searchTime |-> tm, error |-> msg]

NoSearchData == SearchData(FALSE, <<>>, NoSearchTime, "none")

\* bodies of /api/search: two successes, a failure with and one without error
SearchDatas ==
  {SearchData(TRUE, <<"cat.jpg">>, 5, ""),
   SearchData(TRUE, <<"dog.png", "cat.jpg">>, 7, ""),
   SearchData(FALSE, <<>>, 0, "Request timeout"),
   SearchData(FALSE, <<>>, 0, "")}

\* embeddings in the bodies of /api/embed
EmbedVectors == { <<1, 0>>, <<0, 1>> }

\* a request of the page: the endpoint and what is sent to it
PageRequest(ep, payload) == [endpoint |-> ep, payload |-> payload]

\* one run of handleSearch or handleTextSearch that waits for an answer: the
\* files it works on, the embeddings collected and the request in flight
PageSearch(kind, files, st, request) ==
  [kind |-> kind, files |-> files, stage |-> st, embeddings |-> <<>>,
   request |-> request, data |-> NoSearchData, failed |-> FALSE]

\* a run that has returned: its locals are gone; what remains is the body
\* of /api/search it read, or that it failed
DoneSearch(data, failed) ==
  [kind |-> "", files |-> <<>>, stage |-> "done", embeddings |-> <<>>,
   request |-> PageRequest("", <<>>), data |-> data, failed |-> failed]

\* the messages that the forEach of handleFileSelect / handleDrop passes to
\* setError for the files of the event
RejectionMessages(files) ==
  {"Please select valid image files" :
     i \in {j \in 1..Len(files) : ~IsImageType(files[j].type)}}
  \cup {"File size must be less than 10MB" :
          i \in {j \in 1..Len(files) : /\ IsImageType(files[j].type)
                                        /\ files[j].size > PageMaxSize}}

RECURSIVE SumAt(_, _)
\* embeddings.reduce((sum, emb) => sum + emb[index], 0)
SumAt(embeddings, index) ==
  IF embeddings = <<>> THEN 0
  ELSE Head(embeddings)[index] + SumAt(Tail(embeddings), index)

\* a quotient of two integers, kept as a fraction
Quotient(n, d) == [num |-> n, den |-> d]

\* CombinedEmbedding without the division by the number of embeddings
CombinedEmbeddingSum(embeddings) ==
  [index \in 1..Len(embeddings[1]) |-> Quotient(SumAt(embeddings, index), 1)]

\* embeddings[0].map((_, index) => sum over embeddings / embeddings.length)
CombinedEmbedding(embeddings) ==
  [index \in 1..Len(embeddings[1]) |->
     Quotient(SumAt(embeddings, index), Len(embeddings))]

RECURSIVE ValidFiles(_)
\* the files that the forEach of handleFileSelect / handleDrop pushes
ValidFiles(files) ==
  IF files = <<>> THEN <<>>
  ELSE IF IsImageType(Head(files).type) /\ ~(Head(files).size > PageMaxSize)
       THEN <<Head(files)>> \o ValidFiles(Tail(files))
       ELSE ValidFiles(Tail(files))

\* the message of data.error || "Search failed"
ErrorOfData(data) == IF data.error = "" THEN "Search failed" ELSE data.error

----------------------------------------------------------------------------
(* Actions *)

Init ==
  /\ pc = "idle"
  /\ req = NoRequest
  /\ stage = "none"
  /\ queryType = ""
  /\ calls = <<>>
  /\ timer = NoTimer
  /\ callStart = 0
  /\ startTime = 0
  /\ httpStatus = 0
  /\ embedResponse = NoBody
  /\ searchResponse = NoBody
  /\ resp = NoResponse
  /\ now = 0
  /\ hpc = "idle"
  /\ pyStatus = 0
  /\ hresp = NoHealthResponse
  /\ hclient = "idle"
  /\ hstart = 0
  /\ hcheck = NoHealthCheck
  /\ handlers = [id \in HandlerIds |-> IdleHandler]
  /\ selectedFiles = <<>>
  /\ previewUrls = <<>>
  /\ isSearching = FALSE
  /\ searchResults = <<>>
  /\ error = NoMessage
  /\ searchTime = NoSearchTime
  /\ searches = <<>>
  /\ fileInput = FALSE

\* a request arrives and POST runs up to its answer or its first fetch
POST(r) ==
  /\ pc = "idle"
  /\ req' = r
  /\ LET d == Dispatch(r)
     IN IF d.kind = "respond"
        THEN /\ resp' = d.resp
             /\ pc' = "done"
             /\ UNCHANGED <<stage, queryType, calls, timer, callStart, startTime,
                            httpStatus>>
        ELSE /\ queryType' = d.queryType
             /\ startTime' = now
             /\ stage' = IF d.endpoint = "/search" THEN "search" ELSE "embed"
             /\ StartCall(calls, d.endpoint, d.data)
             /\ UNCHANGED resp
  /\ UNCHANGED <<embedResponse, searchResponse, now, restVars>>

\* the response headers of the Python service arrive: fetch resolves
FetchResolves(st) ==
  /\ pc = "fetch"
  /\ timer' = NoTimer
  /\ httpStatus' = st
  /\ pc' = IF st = 200 THEN "json" ELSE "text"
  /\ UNCHANGED <<req, stage, queryType, calls, callStart, startTime,
                 embedResponse, searchResponse, resp, now, restVars>>

\* the connection fails: fetch rejects
FetchRejects ==
  /\ pc = "fetch"
  /\ CallFails(NetworkError)
  /\ UNCHANGED now

\* the timer of the call fires: controller.abort() makes fetch reject
TimerFires ==
  /\ pc = "fetch"
  /\ timer # NoTimer
  /\ now >= timer
  /\ CallFails(AbortError)
  /\ UNCHANGED now

\* response.text() of a non-2xx response resolves
TextArrives(txt) ==
  /\ pc = "text"
  /\ CallFails(PythonServiceError(httpStatus, txt))
  /\ UNCHANGED now

\* response.json() / response.text() rejects: the body is not JSON or the
\* connection breaks while the body is read
BodyFails ==
  /\ pc \in {"json", "text"}
  /\ CallFails(IF pc = "json" THEN JsonSyntaxError ELSE NetworkError)
  /\ UNCHANGED now

\* EmbedArrives searching with the embedding of the request body
EmbedArrivesWrongVector(body) ==
  /\ pc = "json"
  /\ stage = "embed"
  /\ embedResponse' = body
  /\ IF body.isNull \/ NoEmbedding(body)
     THEN /\ calls' = Settle(calls, "resolved", NoError, NoError)
          /\ timer' = NoTimer
          /\ Finish(SearchFailure(
               IF body.isNull THEN NullTypeError
               ELSE IF queryType = "text" THEN ErrorOf("Failed to generate text embedding")
               ELSE ErrorOf("Failed to generate image embedding"),
               queryType, now - startTime))
          /\ UNCHANGED <<stage, callStart, httpStatus>>
     ELSE /\ stage' = "search"
          /\ StartCall(Settle(calls, "resolved", NoError, NoError), "/search",
                       CallData(Undefined, Undefined, req.body.embedding))
          /\ UNCHANGED resp
  /\ UNCHANGED <<req, queryType, startTime, searchResponse, now, restVars>>

\* response.json() of /embed/* resolves with body
EmbedArrives(body) ==
  /\ pc = "json"
  /\ stage = "embed"
  /\ embedResponse' = body
  /\ IF body.isNull \/ NoEmbedding(body)
     THEN /\ calls' = Settle(calls, "resolved", NoError, NoError)
          /\ timer' = NoTimer
          /\ Finish(SearchFailure(
               IF body.isNull THEN NullTypeError
               ELSE IF queryType = "text" THEN ErrorOf("Failed to generate text embedding")
               ELSE ErrorOf("Failed to generate image embedding"),
               queryType, now - startTime))
          /\ UNCHANGED <<stage, callStart, httpStatus>>
     ELSE /\ stage' = "search"
          /\ StartCall(Settle(calls, "resolved", NoError, NoError), "/search",
                       CallData(Undefined, Undefined, body.embedding))
          /\ UNCHANGED resp
  /\ UNCHANGED <<req, queryType, startTime, searchResponse, now, restVars>>

\* response.json() of /search resolves with body
SearchArrives(body) ==
  /\ pc = "json"
  /\ stage = "search"
  /\ searchResponse' = body
  /\ calls' = Settle(calls, "resolved", NoError, NoError)
  /\ timer' = NoTimer
  /\ Finish(IF body.isNull THEN SearchFailure(NullTypeError, queryType, now - startTime)
            ELSE IF MappingThrows(body)
            THEN SearchFailure(UndefTypeError, queryType, now - startTime)
            ELSE SearchSuccess(body, queryType, now - startTime, now))
  /\ UNCHANGED <<req, stage, queryType, callStart, startTime, httpStatus,
                 embedResponse, now, restVars>>

\* time passes while a Python call is in progress; an armed timer fires when
\* it is due, so the clock does not pass its deadline
Tick ==
  /\ pc \in {"fetch", "json", "text"}
  /\ now < MaxTicks * TickStep
  /\ timer = NoTimer \/ now < timer
  /\ now' = now + TickStep
  /\ UNCHANGED <<pc, req, stage, queryType, calls, timer, callStart, startTime,
                 httpStatus, embedResponse, searchResponse, resp, restVars>>

Next ==
  \/ \E r \in Requests : POST(r)
  \/ \E st \in HttpStatuses : FetchResolves(st)
  \/ FetchRejects
  \/ TimerFires
  \/ \E txt \in ErrorTexts : TextArrives(txt)
  \/ BodyFails
  \/ \E body \in EmbedBodies : EmbedArrives(body)
  \/ \E body \in SearchBodies : SearchArrives(body)
  \/ Tick

Spec == Init /\ [][Next]_vars

----------------------------------------------------------------------------
(* Properties *)

EmbedEndpoints == {"/embed/image", "/embed/text"}

CallsTo(eps) == {i \in 1..Len(calls) : calls[i].endpoint \in eps}

\* the request is JSON, parsed to an object in which only `text` is given
OnlyText(r) ==
  /\ Includes(r.contentType, "application/json")
  /\ ~Includes(r.contentType, "multipart/form-data")
  /\ r.parses
  /\ ~r.body.isNull
  /\ r.body.text.kind # "undefined"
  /\ r.body.image_data.kind = "undefined"
  /\ r.body.embedding.kind = "undefined"

\* a string with a non-blank character and at most MaxTextLength characters
GoodText(v) ==
  /\ v.kind = "string"
  /\ \E i \in 1..Len(v.str) : ~IsSpace(v.str[i])
  /\ Len(v.str) <= MaxTextLength

\* C1: a text-only JSON request reaches /embed/text only if the text is a
\* string that is not blank and at most 1000 characters long; for every other
\* text the answer is 400 and no Python call is made.
C1_TextValidated ==
  (pc # "idle" /\ OnlyText(req)) =>
    /\ CallsTo({"/embed/text"}) # {} => GoodText(req.body.text)
    /\ ~GoodText(req.body.text) =>
         (pc = "done" /\ resp.status = 400 /\ calls = <<>>)

C1_Witness ==
  /\ pc = "done"
  /\ OnlyText(req)
  /\ req.body.text.kind = "string"
  /\ Len(req.body.text.str) > 0
  /\ \A i \in 1..Len(req.body.text.str) : IsSpace(req.body.text.str[i])
  /\ resp.status = 400
  /\ calls = <<>>

\* C2: a request answered with 400 has made no Python call.
C2_NoCallBefore400 ==
  (pc = "done" /\ resp.status = 400) => calls = <<>>

C2_Witness ==
  /\ pc = "done"
  /\ resp.status = 400
  /\ req.body.image_data.kind = "number"
  /\ calls = <<>>

\* the embedding step has failed: the /embed/* call rejected (error status,
\* connection failure, timeout, unreadable body) or resolved with a body
\* that holds no embedding
EmbedFailed ==
  /\ Len(calls) >= 1
  /\ calls[1].endpoint \in EmbedEndpoints
  /\ \/ calls[1].outcome = "rejected"
     \/ /\ calls[1].outcome = "resolved"
        /\ \/ embedResponse.isNull
           \/ embedResponse.embedding.kind \in {"undefined", "null"}

\* C3: when the embedding step fails, the request ends in a failure outcome
\* and no /search call is ever made for it.
C3_EmbedFailureSkipsSearch ==
  EmbedFailed => (pc = "done" /\ ~resp.success /\ CallsTo({"/search"}) = {})

C3_Witness ==
  /\ EmbedFailed
  /\ calls[1].outcome = "resolved"
  /\ embedResponse.embedding.kind = "null"
  /\ pc = "done"

\* C4: no retries: at most one /embed/* call and at most one /search call
\* per request, and a call that failed is the last call of the request.
C4_NoRetries ==
  /\ Cardinality(CallsTo(EmbedEndpoints)) <= 1
  /\ Cardinality(CallsTo({"/search"})) <= 1
  /\ \A i \in 1..Len(calls) :
       calls[i].outcome = "rejected" => (i = Len(calls) /\ pc = "done")

C4_Witness ==
  /\ Len(calls) = 2
  /\ calls[1].outcome = "resolved"
  /\ calls[2].outcome = "rejected"
  /\ pc = "done"

\* the request is JSON, parsed to an object in which only `embedding` is given
OnlyEmbedding(r) ==
  /\ Includes(r.contentType, "application/json")
  /\ ~Includes(r.contentType, "multipart/form-data")
  /\ r.parses
  /\ ~r.body.isNull
  /\ r.body.text.kind = "undefined"
  /\ r.body.image_data.kind = "undefined"
  /\ r.body.embedding.kind # "undefined"

\* the request is JSON, parsed to an object in which only `image_data` is given
OnlyImageData(r) ==
  /\ Includes(r.contentType, "application/json")
  /\ ~Includes(r.contentType, "multipart/form-data")
  /\ r.parses
  /\ ~r.body.isNull
  /\ r.body.text.kind = "undefined"
  /\ r.body.image_data.kind # "undefined"
  /\ r.body.embedding.kind = "undefined"

\* the Python service answered every call made so far: no call was ended by
\* a connection failure, a timeout or an unreadable body
ServiceAnswered ==
  \A i \in 1..Len(calls) :
    calls[i].cause.name \notin {"TypeError", "AbortError", "SyntaxError"}

\* C5: a raw embedding query whose length is not the index dimension is
\* answered with a client error (400), also when the Python service is
\* reachable and answers the query.
C5_DimensionMismatchIs400 ==
  (/\ pc = "done"
   /\ OnlyEmbedding(req)
   /\ req.body.embedding.kind = "array"
   /\ Len(req.body.embedding.arr) # EmbeddingDim
   /\ ServiceAnswered)
  => resp.status = 400

\* input of bad shape or type: a body that cannot be parsed, an image_data
\* that is not a string, an embedding that is not an array
BadInput(r) ==
  \/ /\ \/ Includes(r.contentType, "application/json")
        \/ Includes(r.contentType, "multipart/form-data")
     /\ ~r.parses
  \/ OnlyImageData(r) /\ r.body.image_data.kind # "string"
  \/ OnlyEmbedding(r) /\ r.body.embedding.kind # "array"

\* C6: every request with input of bad shape, size or type is answered with
\* 400 and never with 500.
C6_BadInputIs400 ==
  (pc = "done" /\ BadInput(req)) => resp.status = 400

C8_NoCallPendingAfterTimeout ==
  pc \in {"fetch", "json", "text"} => now - callStart <= API_TIMEOUT

\* the call in progress was ended by the abort of its timer
Aborted == calls # <<>> /\ calls[Len(calls)].cause.name = "AbortError"

\* C9: a call aborted by the timeout ends the request with status 500 and the
\* error "Request timeout", and no request that ended otherwise reports that
\* error.
C9_TimeoutIsDistinct ==
  pc = "done" =>
    /\ Aborted => (resp.status = 500 /\ ~resp.success
                   /\ resp.error.msg = "Request timeout")
    /\ ~Aborted => resp.error.msg # "Request timeout"

C9_Witness ==
  /\ pc = "done"
  /\ Aborted
  /\ stage = "embed"
  /\ resp.error.msg = "Request timeout"

----------------------------------------------------------------------------
(* Actions of GET /api/health and checkServiceHealth *)

\* checkServiceHealth sends GET /api/health
CheckStarts ==
  /\ hclient = "idle"
  /\ hclient' = "waiting"
  /\ hstart' = now
  /\ UNCHANGED <<hpc, pyStatus, hresp, hcheck>>
  /\ UNCHANGED <<searchVars, now, handlers, pageVars>>

\* GET of src/app/api/health/route.ts: answers without a Python call
HealthGETStatic ==
  /\ hclient = "waiting"
  /\ hpc = "idle"
  /\ hresp' = StaticResponse
  /\ hpc' = "done"
  /\ UNCHANGED <<pyStatus, hclient, hstart, hcheck>>
  /\ UNCHANGED <<searchVars, now, handlers, pageVars>>

\* GET that asks the Python service: fetch of /health is sent
HealthGET ==
  /\ hclient = "waiting"
  /\ hpc = "idle"
  /\ hpc' = "fetch"
  /\ UNCHANGED <<pyStatus, hresp, hclient, hstart, hcheck>>
  /\ UNCHANGED <<searchVars, now, handlers, pageVars>>

\* the Python service answers /health with status st
HealthFetchResolves(st) ==
  /\ hpc = "fetch"
  /\ pyStatus' = st
  /\ hpc' = "json"
  /\ UNCHANGED <<hresp, hclient, hstart, hcheck>>
  /\ UNCHANGED <<searchVars, now, handlers, pageVars>>

\* the connection to the Python service fails
HealthFetchRejects ==
  /\ hpc = "fetch"
  /\ hresp' = DegradedResponse("fetch failed")
  /\ hpc' = "done"
  /\ UNCHANGED <<pyStatus, hclient, hstart, hcheck>>
  /\ UNCHANGED <<searchVars, now, handlers, pageVars>>

\* pythonHealthResponse.json() resolves
HealthJsonArrives ==
  /\ hpc = "json"
  /\ hresp' = HealthyResponse(pyStatus)
  /\ hpc' = "done"
  /\ UNCHANGED <<pyStatus, hclient, hstart, hcheck>>
  /\ UNCHANGED <<searchVars, now, handlers, pageVars>>

\* pythonHealthResponse.json() rejects: the body is not JSON
HealthJsonFails ==
  /\ hpc = "json"
  /\ hresp' = DegradedResponse("Unexpected token in JSON")
  /\ hpc' = "done"
  /\ UNCHANGED <<pyStatus, hclient, hstart, hcheck>>
  /\ UNCHANGED <<searchVars, now, handlers, pageVars>>

\* the response of /api/health reaches checkServiceHealth
CheckReceives ==
  /\ hclient = "waiting"
  /\ hpc = "done"
  /\ hcheck' = CheckResult(hresp)
  /\ hclient' = "done"
  /\ UNCHANGED <<hpc, pyStatus, hresp, hstart>>
  /\ UNCHANGED <<searchVars, now, handlers, pageVars>>

\* the axios timeout of apiClient ends the wait
CheckTimesOut ==
  /\ hclient = "waiting"
  /\ now - hstart >= AXIOS_TIMEOUT
  /\ hcheck' = HealthCheck("unhealthy", FALSE, "Failed to check service health")
  /\ hclient' = "done"
  /\ UNCHANGED <<hpc, pyStatus, hresp, hstart>>
  /\ UNCHANGED <<searchVars, now, handlers, pageVars>>

\* time passes while the health check is under way
HealthTick ==
  /\ hclient = "waiting" \/ hpc \in {"fetch", "json"}
  /\ now < MaxTicks * TickStep
  /\ hclient = "waiting" => now - hstart < AXIOS_TIMEOUT
  /\ now' = now + TickStep
  /\ UNCHANGED <<restVars, searchVars>>

HealthNext ==
  \/ CheckStarts
  \/ HealthGETStatic
  \/ HealthGET
  \/ \E st \in HttpStatuses : HealthFetchResolves(st)
  \/ HealthFetchRejects
  \/ HealthJsonArrives
  \/ HealthJsonFails
  \/ CheckReceives
  \/ CheckTimesOut
  \/ HealthTick

SpecHealth == Init /\ [][HealthNext]_vars

----------------------------------------------------------------------------
(* Several POST /api/search requests handled at the same time *)

\* a request arrives and a new handler runs up to its first await; the
\* handlers are numbered in the order of their requests
ConcPOST(id, r) ==
  /\ handlers[id].pc = "idle"
  /\ \A j \in 1..(id - 1) : handlers[j].pc # "idle"
  /\ LET d == Dispatch(r)
         h == [handlers[id] EXCEPT !.req = r]
     IN handlers' = [handlers EXCEPT ![id] =
          IF d.kind = "respond"
          THEN [h EXCEPT !.resp = d.resp, !.pc = "done"]
          ELSE HandlerCalls([h EXCEPT !.queryType = d.queryType,
                                      !.startTime = now,
                                      !.stage = IF d.endpoint = "/search"
                                                THEN "search" ELSE "embed"],
                            <<>>, d.endpoint, d.data, now)]
  /\ UNCHANGED <<searchVars, now, hpc, pyStatus, hresp, hclient, hstart, hcheck,
                 pageVars>>

\* the fetch of handler id resolves
ConcFetchResolves(id, st) ==
  /\ handlers[id].pc = "fetch"
  /\ handlers' = [handlers EXCEPT ![id].timer = NoTimer,
                                  ![id].httpStatus = st,
                                  ![id].pc = IF st = 200 THEN "json" ELSE "text"]
  /\ UNCHANGED <<searchVars, now, hpc, pyStatus, hresp, hclient, hstart, hcheck,
                 pageVars>>

\* the fetch of handler id rejects
ConcFetchRejects(id) ==
  /\ handlers[id].pc = "fetch"
  /\ handlers' = [handlers EXCEPT ![id] = HandlerFails(@, NetworkError, now)]
  /\ UNCHANGED <<searchVars, now, hpc, pyStatus, hresp, hclient, hstart, hcheck,
                 pageVars>>

\* the timer of handler id fires and aborts its controller
ConcTimerFires(id) ==
  /\ handlers[id].pc = "fetch"
  /\ handlers[id].timer # NoTimer
  /\ now >= handlers[id].timer
  /\ handlers' = [j \in HandlerIds |->
                    IF j \in AbortTargets(handlers, id)
                    THEN HandlerFails(handlers[j], AbortError, now)
                    ELSE handlers[j]]
  /\ UNCHANGED <<searchVars, now, hpc, pyStatus, hresp, hclient, hstart, hcheck,
                 pageVars>>

\* the error body of handler id's call has been read
ConcTextArrives(id, txt) ==
  /\ handlers[id].pc = "text"
  /\ handlers' = [handlers EXCEPT ![id] =
                    HandlerFails(@, PythonServiceError(@.httpStatus, txt), now)]
  /\ UNCHANGED <<searchVars, now, hpc, pyStatus, hresp, hclient, hstart, hcheck,
                 pageVars>>

\* reading the body of handler id's call fails
ConcBodyFails(id) ==
  /\ handlers[id].pc \in {"json", "text"}
  /\ handlers' = [handlers EXCEPT ![id] =
                    HandlerFails(@, IF @.pc = "json" THEN JsonSyntaxError
                                    ELSE NetworkError, now)]
  /\ UNCHANGED <<searchVars, now, hpc, pyStatus, hresp, hclient, hstart, hcheck,
                 pageVars>>

\* the body of /embed/* arrives in handler id
ConcEmbedArrives(id, body) ==
  /\ handlers[id].pc = "json"
  /\ handlers[id].stage = "embed"
  /\ LET h == [handlers[id] EXCEPT !.embedResponse = body]
     IN handlers' = [handlers EXCEPT ![id] =
          IF body.isNull \/ NoEmbedding(body)
          THEN HandlerReturns(h,
                 SearchFailure(
                   IF body.isNull THEN NullTypeError
                   ELSE IF h.queryType = "text"
                   THEN ErrorOf("Failed to generate text embedding")
                   ELSE ErrorOf("Failed to generate image embedding"),
                   h.queryType, now - h.startTime), now)
          ELSE HandlerCalls([h EXCEPT !.stage = "search"],
                            SettleAt(h.calls, "resolved", NoError, NoError, now),
                            "/search",
                            CallData(Undefined, Undefined, body.embedding), now)]
  /\ UNCHANGED <<searchVars, now, hpc, pyStatus, hresp, hclient, hstart, hcheck,
                 pageVars>>

\* ConcSearchArrives with one result array for all the handlers, to which
\* every search appends
ConcSearchArrivesShared(id, body) ==
  /\ handlers[id].pc = "json"
  /\ handlers[id].stage = "search"
  /\ LET h == [handlers[id] EXCEPT !.searchResponse = body]
         other == CHOOSE j \in HandlerIds : j # id
         own == SearchSuccess(body, h.queryType, now - h.startTime, now)
     IN handlers' = [handlers EXCEPT ![id] =
          HandlerReturns(h,
            IF body.isNull
            THEN SearchFailure(NullTypeError, h.queryType, now - h.startTime)
            ELSE IF MappingThrows(body)
            THEN SearchFailure(UndefTypeError, h.queryType, now - h.startTime)
            ELSE [own EXCEPT !.results = handlers[other].resp.results \o @], now)]
  /\ UNCHANGED <<searchVars, now, hpc, pyStatus, hresp, hclient, hstart, hcheck,
                 pageVars>>

\* the body of /search arrives in handler id
ConcSearchArrives(id, body) ==
  /\ handlers[id].pc = "json"
  /\ handlers[id].stage = "search"
  /\ LET h == [handlers[id] EXCEPT !.searchResponse = body]
     IN handlers' = [handlers EXCEPT ![id] =
          HandlerReturns(h,
            IF body.isNull
            THEN SearchFailure(NullTypeError, h.queryType, now - h.startTime)
            ELSE IF MappingThrows(body)
            THEN SearchFailure(UndefTypeError, h.queryType, now - h.startTime)
            ELSE SearchSuccess(body, h.queryType, now - h.startTime, now), now)]
  /\ UNCHANGED <<searchVars, now, hpc, pyStatus, hresp, hclient, hstart, hcheck,
                 pageVars>>

\* time passes while some handler waits; a timer that is due fires first
ConcTick ==
  /\ \E id \in HandlerIds : handlers[id].pc \in {"fetch", "json", "text"}
  /\ now < ConcHorizon
  /\ \A id \in HandlerIds : handlers[id].timer = NoTimer \/ now < handlers[id].timer
  /\ now' = now + TickStep
  /\ UNCHANGED <<searchVars, restVars>>

ConcNext ==
  \/ \E id \in HandlerIds, r \in ConcRequests : ConcPOST(id, r)
  \/ \E id \in HandlerIds, st \in ConcStatuses : ConcFetchResolves(id, st)
  \/ \E id \in HandlerIds : ConcFetchRejects(id)
  \/ \E id \in HandlerIds : ConcTimerFires(id)
  \/ \E id \in HandlerIds, txt \in ConcErrorTexts : ConcTextArrives(id, txt)
  \/ \E id \in HandlerIds : ConcBodyFails(id)
  \/ \E id \in HandlerIds, body \in ConcEmbedBodies : ConcEmbedArrives(id, body)
  \/ \E id \in HandlerIds, body \in ConcSearchBodies : ConcSearchArrives(id, body)
  \/ ConcTick

SpecConc == Init /\ [][ConcNext]_vars

\* the response that the locals of handler h alone determine
OwnOutcome(h) ==
  IF h.calls = <<>> THEN Dispatch(h.req).resp
  ELSE LET c == h.calls[Len(h.calls)]
           tm == c.endedAt - h.startTime
       IN IF c.outcome = "rejected"
          THEN SendResult(SearchFailure(c.error, h.queryType, tm))
          ELSE IF c.endpoint = "/search"
          THEN SendResult(SearchSuccess(h.searchResponse, h.queryType, tm, c.endedAt))
          ELSE SendResult(SearchFailure(
                 IF h.queryType = "text"
                 THEN ErrorOf("Failed to generate text embedding")
                 ELSE ErrorOf("Failed to generate image embedding"),
                 h.queryType, tm))

\* C19: requests handled at the same time are independent: a call is
\* aborted only by its own timer, API_TIMEOUT after its own start, whatever
\* the other handlers do; a pending fetch has its own deadline; and the
\* response of a handler is the one that its own request and its own calls
\* determine.
C19_ConcurrentRequestsIndependent ==
  \A id \in HandlerIds :
    LET h == handlers[id]
    IN /\ \A i \in 1..Len(h.calls) :
            /\ h.calls[i].cause = AbortError =>
                 h.calls[i].endedAt - h.calls[i].startedAt = API_TIMEOUT
            /\ (h.calls[i].error.msg = "Request timeout") <=>
                 (h.calls[i].cause = AbortError)
       /\ h.pc = "fetch" =>
            /\ h.timer = h.calls[Len(h.calls)].startedAt + API_TIMEOUT
            /\ now <= h.timer
       /\ h.pc = "done" => h.resp = OwnOutcome(h)

\* the two handlers have answered the same query with success, the
\* Python service having given both the same bodies
SameQueryTwice ==
  /\ handlers[1].pc = "done"
  /\ handlers[2].pc = "done"
  /\ handlers[1].req = handlers[2].req
  /\ handlers[1].resp.success
  /\ handlers[2].resp.success
  /\ handlers[1].embedResponse = handlers[2].embedResponse
  /\ handlers[1].searchResponse = handlers[2].searchResponse

\* C22 as stated: the same query against the same /search response yields
\* the same list of results.
C22_IdenticalResults ==
  SameQueryTwice => handlers[1].resp.results = handlers[2].resp.results

\* the two result lists agree in everything but metadata.uploadedAt
SameButUploadedAt(a, b) ==
  /\ Len(a) = Len(b)
  /\ \A i \in 1..Len(a) :
       /\ a[i].id = b[i].id
       /\ a[i].imageUrl = b[i].imageUrl
       /\ a[i].similarity = b[i].similarity
       /\ a[i].metadata.filename = b[i].metadata.filename
       /\ a[i].metadata.size = b[i].metadata.size

\* C22 as amended: the same query against the same /search response yields
\* the same results in the same order, equal in id, imageUrl, similarity,
\* metadata.filename and metadata.size; metadata.uploadedAt is the time at
\* which the response was built and differs from one request to the next.
C22_SameRankedOutput ==
  SameQueryTwice =>
    SameButUploadedAt(handlers[1].resp.results, handlers[2].resp.results)

C22_Witness ==
  /\ SameQueryTwice
  /\ Len(handlers[1].resp.results) = 1
  /\ handlers[1].resp.results[1].metadata.uploadedAt
       # handlers[2].resp.results[1].metadata.uploadedAt
  /\ handlers[1].queryType = "text"

\* one request times out while another, sent later and in progress at that
\* moment, goes on and succeeds
C19_Witness ==
  /\ handlers[1].pc = "done"
  /\ handlers[2].pc = "done"
  /\ handlers[1].resp.error.msg = "Request timeout"
  /\ handlers[2].resp.success
  /\ handlers[2].calls[1].startedAt > handlers[1].calls[Len(handlers[1].calls)].startedAt
  /\ handlers[2].calls[1].startedAt < handlers[1].calls[Len(handlers[1].calls)].endedAt
  /\ handlers[2].calls[Len(handlers[2].calls)].endedAt
       > handlers[1].calls[Len(handlers[1].calls)].endedAt

----------------------------------------------------------------------------
(* SearchPage *)

\* handleFileSelect: the setError calls of the loop are followed by
\* setError(null), so the state after the handler holds no message
handleFileSelect(files) ==
  /\ selectedFiles' = ValidFiles(files)
  /\ previewUrls' = [i \in 1..Len(ValidFiles(files)) |-> ObjectUrl(ValidFiles(files)[i])]
  /\ error' = NoMessage
  /\ fileInput' = (files # <<>>)
  /\ UNCHANGED <<isSearching, searchResults, searchTime, searches>>
  /\ UNCHANGED <<searchVars, now, hpc, pyStatus, hresp, hclient, hstart, hcheck,
                 handlers>>

\* handleDrop
handleDrop(files) ==
  /\ selectedFiles' = ValidFiles(files)
  /\ previewUrls' = [i \in 1..Len(ValidFiles(files)) |-> ObjectUrl(ValidFiles(files)[i])]
  /\ error' = NoMessage
  /\ UNCHANGED <<isSearching, searchResults, searchTime, searches, fileInput>>
  /\ UNCHANGED <<searchVars, now, hpc, pyStatus, hresp, hclient, hstart, hcheck,
                 handlers>>

\* the start of handleSearch and of handleTextSearch: the three set calls
\* and the first fetch of the search
StartSearch(search) ==
  /\ Len(searches) < MaxSearches
  /\ isSearching' = TRUE
  /\ error' = NoMessage
  /\ searchResults' = <<>>
  /\ searches' = Append(searches, search)
  /\ UNCHANGED <<selectedFiles, previewUrls, searchTime, fileInput>>

\* a click on the image search button, which is disabled while isSearching
\* is set or no file is selected: handleSearch up to its first fetch
handleSearch ==
  /\ selectedFiles # <<>>
  /\ ~isSearching
  /\ StartSearch(
       IF Len(selectedFiles) > 1
       THEN PageSearch("multi", selectedFiles, "embed",
                       PageRequest("/api/embed", selectedFiles[1]))
       ELSE PageSearch("single", selectedFiles, "search",
                       PageRequest("/api/search", selectedFiles[1])))
  /\ UNCHANGED <<searchVars, now, hpc, pyStatus, hresp, hclient, hstart, hcheck,
                 handlers>>

\* handleTextSearch(text) up to its fetch
handleTextSearch(text) ==
  StartSearch(PageSearch("text", <<>>, "search", PageRequest("/api/search", text)))

\* a click on the text search button, which is disabled while isSearching
\* is set
ClickTextSearch(value) ==
  /\ ~isSearching
  /\ Trim(value) # <<>>
  /\ handleTextSearch(Trim(value))
  /\ UNCHANGED <<searchVars, now, hpc, pyStatus, hresp, hclient, hstart, hcheck,
                 handlers>>

\* onKeyPress of the text box with the Enter key
PressEnter(value) ==
  /\ Trim(value) # <<>>
  /\ handleTextSearch(Trim(value))
  /\ UNCHANGED <<searchVars, now, hpc, pyStatus, hresp, hclient, hstart, hcheck,
                 handlers>>

\* /api/embed answers the multi-image search s with an embedding: the next
\* file is sent, or after the last file the average is searched
EmbedResponds(s, embedding) ==
  /\ s \in 1..Len(searches)
  /\ searches[s].stage = "embed"
  /\ LET sr == searches[s]
         embeddings == Append(sr.embeddings, embedding)
         request == IF Len(embeddings) < Len(sr.files)
                    THEN PageRequest("/api/embed", sr.files[Len(embeddings) + 1])
                    ELSE PageRequest("/api/search", CombinedEmbedding(embeddings))
     IN searches' = [searches EXCEPT
          ![s].embeddings = embeddings,
          ![s].request = request,
          ![s].stage = IF Len(embeddings) < Len(sr.files) THEN "embed" ELSE "search"]
  /\ UNCHANGED <<selectedFiles, previewUrls, isSearching, searchResults, error,
                 searchTime, fileInput>>
  /\ UNCHANGED <<searchVars, now, hpc, pyStatus, hresp, hclient, hstart, hcheck,
                 handlers>>

\* a fetch of search s rejects, its answer is not JSON, or /api/embed answers
\* with a status that is not ok: catch and finally of the handler run
RequestFails(s) ==
  /\ s \in 1..Len(searches)
  /\ searches[s].stage \in {"embed", "search"}
  /\ searches' = [searches EXCEPT ![s] = DoneSearch(NoSearchData, TRUE)]
  /\ error' = "Failed to perform search. Please try again."
  /\ isSearching' = FALSE
  /\ UNCHANGED <<selectedFiles, previewUrls, searchResults, searchTime, fileInput>>
  /\ UNCHANGED <<searchVars, now, hpc, pyStatus, hresp, hclient, hstart, hcheck,
                 handlers>>

\* the body of /api/search has been read by search s
SearchResponds(s, data) ==
  /\ s \in 1..Len(searches)
  /\ searches[s].stage = "search"
  /\ searches' = [searches EXCEPT ![s] = DoneSearch(data, FALSE)]
  /\ IF data.success
     THEN /\ searchResults' = data.results
          /\ searchTime' = data.searchTime
          /\ UNCHANGED error
     ELSE /\ error' = ErrorOfData(data)
          /\ UNCHANGED <<searchResults, searchTime>>
  /\ isSearching' = FALSE
  /\ UNCHANGED <<selectedFiles, previewUrls, fileInput>>
  /\ UNCHANGED <<searchVars, now, hpc, pyStatus, hresp, hclient, hstart, hcheck,
                 handlers>>

PageNext ==
  \/ \E files \in FileLists : handleFileSelect(files)
  \/ \E files \in FileLists : handleDrop(files)
  \/ handleSearch
  \/ \E value \in TextInputs : ClickTextSearch(value)
  \/ \E value \in TextInputs : PressEnter(value)
  \/ \E s \in 1..MaxSearches, embedding \in EmbedVectors : EmbedResponds(s, embedding)
  \/ \E s \in 1..MaxSearches : RequestFails(s)
  \/ \E s \in 1..MaxSearches, data \in SearchDatas : SearchResponds(s, data)

SpecPage == Init /\ [][PageNext]_vars

----------------------------------------------------------------------------
(* Properties of the responses of POST /api/search *)

\* C11: every error response has the documented error format: success =
\* false, results = [], totalResults = 0, a searchTime, an error message and a
\* queryType of image, text or embedding.
C11_ErrorFormat ==
  (pc = "done" /\ ~resp.success) =>
    /\ resp.fields = AllFields
    /\ resp.results = <<>>
    /\ resp.totalResults = Num(0)
    /\ resp.error.msg # ""
    /\ resp.queryType \in {"image", "text", "embedding"}

\* the connection to the Python service failed during the last call
ConnectionFailed ==
  calls # <<>> /\ calls[Len(calls)].cause = NetworkError

\* C12: when the connection to the Python service fails, POST /api/search
\* answers with 503.
C12_UnavailableIs503 ==
  (pc = "done" /\ ConnectionFailed) => resp.status = 503

Fields == {"text", "image_data", "embedding"}

\* the request is JSON and parsed to an object
JsonObject(r) ==
  /\ Includes(r.contentType, "application/json")
  /\ ~Includes(r.contentType, "multipart/form-data")
  /\ r.parses
  /\ ~r.body.isNull

\* the fields of the body that hold a value (a truthy one)
Populated(r) == {f \in Fields : Truthy(r.body[f])}

\* the search that belongs to a field
SearchOf(f) ==
  CASE f = "text" -> "text" [] f = "image_data" -> "image" [] OTHER -> "embedding"

\* the JSON request has been dispatched to a search
Dispatched == JsonObject(req) /\ queryType # ""

C15_ForwardedImagesValidated ==
  CallsTo({"/embed/image"}) # {} =>
    /\ Includes(req.contentType, "multipart/form-data")
    /\ req.file.kind = "file"
    /\ req.file.size < MAX_FILE_SIZE
    /\ req.file.type \in ALLOWED_IMAGE_TYPES

\* C16: in an image or text search the /embed/* call has resolved before
\* the /search call is made, and /search is sent exactly the embedding
\* that /embed/* returned.
C16_EmbedThenSearch ==
  (queryType \in {"image", "text"}) =>
    \A i \in CallsTo({"/search"}) :
      /\ i = 2
      /\ calls[1].endpoint \in EmbedEndpoints
      /\ calls[1].outcome = "resolved"
      /\ ~embedResponse.isNull
      /\ calls[i].data.embedding = embedResponse.embedding
      /\ calls[i].data.embedding.kind = "array"

C16_Witness ==
  /\ queryType = "image"
  /\ Len(calls) = 2
  /\ calls[2].endpoint = "/search"
  /\ calls[2].data.embedding = Arr(Rep(1, EmbeddingDim))
  /\ calls[2].outcome = "resolved"

\* the Python service has reported a failure of a call: by its status, by
\* success = false in its body, or by a body that is not what the handler
\* reads (no JSON, null, no results, a result without index)
PythonReportedFailure ==
  /\ calls # <<>>
  /\ \/ \E i \in 1..Len(calls) :
          calls[i].cause.msg \in {"Python service error", JsonSyntaxError.msg}
     \/ embedResponse.success = Bool(FALSE)
     \/ searchResponse.success = Bool(FALSE)
     \/ /\ calls[Len(calls)].endpoint = "/search"
        /\ calls[Len(calls)].outcome = "resolved"
        /\ \/ searchResponse.isNull
           \/ ~searchResponse.hasResults
           \/ MappingThrows(searchResponse)

\* C17: whenever the Python service reports a failure, the search returns
\* success = false with an error message.
C17_FailuresAreTagged ==
  (pc = "done" /\ PythonReportedFailure) =>
    (~resp.success /\ resp.error.msg # "")

\* C18: the response does not carry the body text of a Python error
\* response, so that two requests that differ only in that text get the same
\* response.
C18_NoBackendTextInResponse ==
  pc = "done" => resp.error.detail \notin ErrorTexts

\* the result list read from the /search body
IndexResults == IF searchResponse.hasResults THEN searchResponse.results ELSE <<>>

RankedByIndex(rs) ==
  \A i \in 1..(Len(rs) - 1) : rs[i].similarity >= rs[i + 1].similarity

\* C21: the results of a successful search are sorted by non-increasing
\* similarity, the index returning them in its ranking order.
C21_SortedBySimilarity ==
  (pc = "done" /\ resp.success /\ RankedByIndex(IndexResults)) =>
    \A i \in 1..(Len(resp.results) - 1) :
      resp.results[i].similarity >= resp.results[i + 1].similarity

C21_Witness ==
  /\ pc = "done"
  /\ resp.success
  /\ Len(resp.results) = 2
  /\ resp.results[1].similarity > resp.results[2].similarity

RECURSIVE SumOfSquares(_)
SumOfSquares(xs) ==
  IF xs = <<>> THEN 0 ELSE Head(xs) * Head(xs) + SumOfSquares(Tail(xs))

\* the L2 norm of the vector is 1
UnitNorm(v) == v.kind = "array" /\ SumOfSquares(v.arr) = 1

\* the Embedding Provider (spec, 4.1) returns unit-normalized vectors
ProviderNormalizes ==
  embedResponse.embedding.kind = "array" => UnitNorm(embedResponse.embedding)

\* C24: every query vector sent to /search is unit-normalized, whether it
\* was returned by /embed/* or supplied by the client.
C24_QueryVectorsNormalized ==
  ProviderNormalizes =>
    \A i \in CallsTo({"/search"}) : UnitNorm(calls[i].data.embedding)

\* the two result lists agree in id, imageUrl, similarity and filename
SameListing(a, b) ==
  /\ Len(a) = Len(b)
  /\ \A i \in 1..Len(a) :
       /\ a[i].id = b[i].id
       /\ a[i].imageUrl = b[i].imageUrl
       /\ a[i].similarity = b[i].similarity
       /\ a[i].metadata.filename = b[i].metadata.filename

\* C25: for the same /search response the image, text and embedding
\* searches return the same result list and differ only in queryType.
C25_SameResultsForAllQueryTypes ==
  (pc = "done" /\ resp.success) =>
    \A qt \in {"image", "text", "embedding"} :
      SameListing(resp.results, MapResults(searchResponse, qt, now))

\* C26: the results of a successful response have the length and the order
\* of the Python result list; the id of each is the decimal string of the
\* index of the Python result at its position, and similarity and
\* metadata.filename are those of that result.
C26_MappingPreservesResults ==
  (pc = "done" /\ resp.success) =>
    /\ Len(resp.results) = Len(IndexResults)
    /\ \A i \in 1..Len(IndexResults) :
         /\ resp.results[i].id = DecimalString(IndexResults[i].index.num)
         /\ resp.results[i].similarity = IndexResults[i].similarity
         /\ resp.results[i].metadata.filename = IndexResults[i].filename

C26_Witness ==
  /\ pc = "done"
  /\ resp.success
  /\ Len(resp.results) = 2
  /\ resp.results[1].id = <<"1", "2">>
  /\ resp.results[2].id = <<"0">>
  /\ resp.results[1].similarity = 80

\* C27: in every successful response totalResults is the number of entries
\* of results.
C27_TotalIsLength ==
  (pc = "done" /\ resp.success) => resp.totalResults = Num(Len(resp.results))

----------------------------------------------------------------------------
(* Properties of GET /api/health and checkServiceHealth *)

\* C13: /api/health reports "healthy" with 200 only when the Python
\* service answered /health with a successful status, and
\* checkServiceHealth returns pythonService = true exactly when it did.
C13_HealthVerifiesPython ==
  /\ (hpc = "done" /\ hresp.http = 200 /\ hresp.status = "healthy") => Ok(pyStatus)
  /\ (hclient = "done" /\ hpc = "done") => (hcheck.pythonService <=> Ok(pyStatus))

----------------------------------------------------------------------------
(* Properties of the search page *)

InFlight(s) == s \in 1..Len(searches) /\ searches[s].stage # "done"

\* what the page shows when only the search sr, which has returned, has
\* written to it
Shows(sr) ==
  IF sr.failed
  THEN searchResults = <<>> /\ error = "Failed to perform search. Please try again."
  ELSE IF sr.data.success
       THEN /\ searchResults = sr.data.results
            /\ searchTime = sr.data.searchTime
            /\ error = NoMessage
       ELSE searchResults = <<>> /\ error = ErrorOfData(sr.data)

\* C23: a multi-image search of N >= 2 files requests /api/embed for one
\* file at a time, in the order of the selection, the next file once the
\* embedding of the one before has arrived; it requests /api/search only
\* when it holds the N embeddings, with the element-wise average of them;
\* a search that has failed has no request
C23_EmbedEachThenSearchAverage ==
  \A s \in 1..Len(searches) :
    LET sr == searches[s]
        N == Len(sr.files)
    IN /\ sr.kind = "multi" =>
            /\ N >= 2
            /\ sr.stage = "embed" =>
                 /\ Len(sr.embeddings) < N
                 /\ sr.request = PageRequest("/api/embed", sr.files[Len(sr.embeddings) + 1])
            /\ sr.stage = "search" =>
                 /\ Len(sr.embeddings) = N
                 /\ sr.request.endpoint = "/api/search"
                 /\ DOMAIN sr.request.payload = DOMAIN sr.embeddings[1]
                 /\ \A index \in DOMAIN sr.request.payload :
                      /\ sr.request.payload[index].den > 0
                      /\ sr.request.payload[index].num * N
                           = SumAt(sr.embeddings, index) * sr.request.payload[index].den
       /\ (sr.stage = "done" /\ sr.failed) => sr.request.endpoint = ""

C23_Witness ==
  \E s \in 1..Len(searches) :
    /\ searches[s].kind = "multi"
    /\ searches[s].stage = "search"
    /\ Len(searches[s].files) = 2
    /\ searches[s].embeddings[1] # searches[s].embeddings[2]

\* C28: isSearching is set whenever a search of the page is in flight
C28_SearchingWhileInFlight ==
  (\E s \in 1..Len(searches) : InFlight(s)) => isSearching

\* C29: the step in which the last search in flight returns leaves on the
\* page the results, the search time and the error of the search that was
\* issued last
C29_LastIssuedSearchShown ==
  [][((\E s \in 1..Len(searches) : InFlight(s))
        /\ (\A s \in 1..Len(searches') : searches'[s].stage = "done"))
       => Shows(searches[Len(searches)])']_vars

\* C30: a change or drop event with a rejected file leaves the file out of
\* selectedFiles and previewUrls and leaves in error the message of a
\* rejected file
Rejected(files) == {files[i] : i \in {j \in 1..Len(files) : <<files[j]>> # ValidFiles(<<files[j]>>)}}

C30_RejectedFileReported ==
  [][\A files \in FileLists :
       ((handleFileSelect(files) \/ handleDrop(files)) /\ Rejected(files) # {})
         => /\ \A i \in 1..Len(selectedFiles') : selectedFiles'[i] \notin Rejected(files)
            /\ \A i \in 1..Len(previewUrls') :
                 \A file \in Rejected(files) : previewUrls'[i] # ObjectUrl(file)
            /\ error' \in RejectionMessages(files)]_vars

====
